---- MODULE Spec2Model ----
(***************************************************************************)
(* Model of the kube-batch scheduler's node bookkeeping                    *)
(* (pkg/scheduler/api/node_info.go) and of the scheduling session that     *)
(* drives it (statement, gang admission, backfill action).                 *)
(***************************************************************************)
EXTENDS Integers, Sequences, FiniteSets, TLC

(***************************************************************************)
(* Bounds of the model.                                                    *)
(***************************************************************************)
MaxTasks == 2
MaxCPU == 1
MaxMem == 0
AllocCPU == 1
AllocMem == 1
MaxCounter == 2
MaxSlots == 2
MaxJobs == 2
MaxJobSize == 2

TaskKeys == 1..MaxTasks

(***************************************************************************)
(* Resource algebra.  A Resource is a vector over two dimensions.          *)
(***************************************************************************)
EmptyResource == [cpu |-> 0, mem |-> 0]

NewResource(c, m) == [cpu |-> c, mem |-> m]

Add(r, rr) == [cpu |-> r.cpu + rr.cpu, mem |-> r.mem + rr.mem]

Monus(a, b) == IF a >= b THEN a - b ELSE 0

\* Sub on a larger value clamps the component to zero.
Sub(r, rr) == [cpu |-> Monus(r.cpu, rr.cpu), mem |-> Monus(r.mem, rr.mem)]

LessEqual(r, rr) == r.cpu <= rr.cpu /\ r.mem <= rr.mem

Requests == {NewResource(c, m) : c \in 1..MaxCPU, m \in 0..MaxMem}

(***************************************************************************)
(* Tasks.  Status is the TaskStatus of the task; the statuses that the     *)
(* node bookkeeping tells apart are Releasing, Pipelined and "any other".  *)
(* PodBackfill is the backfill marker carried by the task's pod.           *)
(***************************************************************************)
Pending == "Pending"
Allocated == "Allocated"
Pipelined == "Pipelined"
Running == "Running"
Releasing == "Releasing"

NodeStatuses == {Running, Releasing, Pipelined}

TaskInputs ==
    [key : TaskKeys, Status : NodeStatuses, Resreq : Requests,
     IsBackfill : BOOLEAN, PodBackfill : BOOLEAN]

PodKey(task) == task.key

CheckBackfill(task) == task.PodBackfill

\* TaskInfo.Clone: a copy with the same fields.
CloneTask(task) == task

(***************************************************************************)
(* NodeInfo.                                                               *)
(***************************************************************************)
NoTasks == [k \in {} |-> 0]

NewNodeInfo(hasNode, alloc, cap) ==
    IF ~hasNode
    THEN [Node |-> FALSE, Releasing |-> EmptyResource, Idle |-> EmptyResource,
          Used |-> EmptyResource, Backfilled |-> EmptyResource,
          Allocatable |-> EmptyResource, Capability |-> EmptyResource,
          Tasks |-> NoTasks]
    ELSE [Node |-> TRUE, Releasing |-> EmptyResource, Idle |-> alloc,
          Used |-> EmptyResource, Backfilled |-> EmptyResource,
          Allocatable |-> alloc, Capability |-> cap,
          Tasks |-> NoTasks]

\* The copy of the task that the node holds.
StoredTask(task) ==
    LET ti == CloneTask(task)
    IN  IF CheckBackfill(ti) /\ ~ti.IsBackfill
        THEN [ti EXCEPT !.IsBackfill = TRUE]
        ELSE ti

\* AddTask, the Backfilled counter.
AddTaskBackfilled(ni, task) ==
    IF task.IsBackfill THEN Add(ni.Backfilled, task.Resreq) ELSE ni.Backfilled

\* A variant of the switch whose default branch leaves Idle alone.
AddTaskStatusKeepIdle(ni, ti) ==
    CASE ti.Status = Releasing ->
           [ni EXCEPT !.Releasing = Add(@, ti.Resreq), !.Idle = Sub(@, ti.Resreq)]
      [] ti.Status = Pipelined ->
           [ni EXCEPT !.Releasing = Sub(@, ti.Resreq)]
      [] OTHER -> ni

\* AddTask, the switch on the status of the stored task.
AddTaskStatus(ni, ti) ==
    CASE ti.Status = Releasing ->
           [ni EXCEPT !.Releasing = Add(@, ti.Resreq), !.Idle = Sub(@, ti.Resreq)]
      [] ti.Status = Pipelined ->
           [ni EXCEPT !.Releasing = Sub(@, ti.Resreq)]
      [] OTHER ->
           [ni EXCEPT !.Idle = Sub(@, ti.Resreq)]

AddTaskUsed(ni, ti) == Add(ni.Used, ti.Resreq)

PutTask(tasks, key, ti) ==
    [k \in DOMAIN tasks \cup {key} |-> IF k = key THEN ti ELSE tasks[k]]

DeleteTask(tasks, key) == [k \in DOMAIN tasks \ {key} |-> tasks[k]]

\* A variant that replaces the task found on the node.
AddTaskFoundOverwrite(ni, task) ==
    [ni |-> [ni EXCEPT !.Tasks = PutTask(@, PodKey(task), StoredTask(task))],
     err |-> "nil"]

\* AddTask, the task's key is found on the node.
AddTaskFound(ni, task) == [ni |-> ni, err |-> "already on node"]

AddTask(ni, task) ==
    LET key == PodKey(task) IN
    IF key \in DOMAIN ni.Tasks
    THEN AddTaskFound(ni, task)
    ELSE LET ti == StoredTask(task)
             n1 == IF ni.Node
                   THEN [AddTaskStatus(ni, ti) EXCEPT
                            !.Backfilled = AddTaskBackfilled(ni, task),
                            !.Used = AddTaskUsed(ni, ti)]
                   ELSE ni
         IN  [ni |-> [n1 EXCEPT !.Tasks = PutTask(@, key, ti)], err |-> "nil"]

\* A variant that never gives Backfilled back.
RemoveTaskBackfilledKeep(ni, task) == ni.Backfilled

\* RemoveTask, the Backfilled counter.
RemoveTaskBackfilled(ni, task) ==
    IF task.IsBackfill THEN Sub(ni.Backfilled, task.Resreq) ELSE ni.Backfilled

\* A variant of the switch that never gives the request back to Idle.
RemoveTaskStatusKeepIdle(ni, task) ==
    CASE task.Status = Releasing ->
           [ni EXCEPT !.Releasing = Sub(@, task.Resreq)]
      [] task.Status = Pipelined ->
           [ni EXCEPT !.Releasing = Add(@, task.Resreq)]
      [] OTHER -> ni

\* RemoveTask, the switch on the status of the stored task.
RemoveTaskStatus(ni, task) ==
    CASE task.Status = Releasing ->
           [ni EXCEPT !.Releasing = Sub(@, task.Resreq), !.Idle = Add(@, task.Resreq)]
      [] task.Status = Pipelined ->
           [ni EXCEPT !.Releasing = Add(@, task.Resreq)]
      [] OTHER ->
           [ni EXCEPT !.Idle = Add(@, task.Resreq)]

RemoveTaskUsed(ni, task) == Sub(ni.Used, task.Resreq)

\* A variant that reports no error for an unknown task.
RemoveTaskNotFoundSilent(ni, ti) == [ni |-> ni, err |-> "nil"]

\* RemoveTask, the task's key is not found on the node.
RemoveTaskNotFound(ni, ti) == [ni |-> ni, err |-> "failed to find task"]

RemoveTask(ni, ti) ==
    LET key == PodKey(ti) IN
    IF key \notin DOMAIN ni.Tasks
    THEN RemoveTaskNotFound(ni, ti)
    ELSE LET task == ni.Tasks[key]
             n1 == IF ni.Node
                   THEN [RemoveTaskStatus(ni, task) EXCEPT
                            !.Backfilled = RemoveTaskBackfilled(ni, task),
                            !.Used = RemoveTaskUsed(ni, task)]
                   ELSE ni
         IN  [ni |-> [n1 EXCEPT !.Tasks = DeleteTask(@, key)], err |-> "nil"]

UpdateTask(ni, ti) ==
    LET r == RemoveTask(ni, ti) IN
    IF r.err # "nil" THEN r ELSE AddTask(r.ni, ti)

(***************************************************************************)
(* Whether an operation subtracts a request from a smaller counter.        *)
(***************************************************************************)
AddTaskUnderflow(ni, task) ==
    /\ PodKey(task) \notin DOMAIN ni.Tasks
    /\ ni.Node
    /\ IF task.Status = Pipelined
       THEN ~LessEqual(task.Resreq, ni.Releasing)
       ELSE ~LessEqual(task.Resreq, ni.Idle)

RemoveTaskUnderflow(ni, ti) ==
    /\ PodKey(ti) \in DOMAIN ni.Tasks
    /\ ni.Node
    /\ LET task == ni.Tasks[PodKey(ti)] IN
       \/ task.IsBackfill /\ ~LessEqual(task.Resreq, ni.Backfilled)
       \/ task.Status = Releasing /\ ~LessEqual(task.Resreq, ni.Releasing)
       \/ ~LessEqual(task.Resreq, ni.Used)

UpdateTaskUnderflow(ni, ti) ==
    \/ RemoveTaskUnderflow(ni, ti)
    \/ RemoveTask(ni, ti).err = "nil" /\ AddTaskUnderflow(RemoveTask(ni, ti).ni, ti)

(***************************************************************************)
(* State.                                                                  *)
(*   nodes      the NodeInfo of every node                                 *)
(*   err        the value returned by the last operation                   *)
(*   underflow  some subtraction so far was from a smaller counter         *)
(*   tasks      the TaskInfo of every task of the session's jobs           *)
(*   stmt       the operations buffered in the open statement              *)
(*   pre        nodes and tasks as they were when the statement was opened *)
(*   binds      the (task, node) pairs handed to the binder                *)
(*   pc         the position of the scheduler in its cycle                 *)
(*   present    the jobs that exist in the cluster                         *)
(*   waited     for how long each job has been pending                     *)
(*   tried      the jobs whose statement was closed in this cycle          *)
(*   enable     the session's EnableBackfill                               *)
(*   jobs       the size and MinMember of every job                        *)
(*   confStr        the configuration handed to loadSchedulerConf          *)
(*   schedulerConf  the configuration loadSchedulerConf returns            *)
(*   actions        the actions getActions returns                         *)
(*   actionOptions  the action options getActions returns                  *)
(*   cloned         the NodeInfo the last Clone returned                   *)
(*   accessible     the Resource the last GetAccessibleResource returned   *)
(*   executed       the actions the open or the last session has executed  *)
(***************************************************************************)
VARIABLES nodes, err, underflow, tasks, stmt, pre, binds, pc,
          present, waited, tried, enable, jobs,
          confStr, schedulerConf, actions, actionOptions,
          cloned, accessible, executed

nodeVars == <<nodes, err, underflow>>

ssnVars == <<tasks, stmt, pre, binds, pc>>

cycleVars == <<present, waited, tried, enable, jobs>>

confVars == <<confStr, schedulerConf, actions, actionOptions>>

outVars == <<cloned, accessible, executed>>

vars == <<nodes, err, underflow, tasks, stmt, pre, binds, pc,
          present, waited, tried, enable, jobs,
          confStr, schedulerConf, actions, actionOptions,
          cloned, accessible, executed>>

\* No configuration has been loaded.
NoConf ==
    /\ confStr = <<>>
    /\ schedulerConf = <<>>
    /\ actions = <<>>
    /\ actionOptions = <<>>

\* No call has returned a value and no session is open.
NoOut ==
    /\ cloned = <<>>
    /\ accessible = <<>>
    /\ executed = <<>>

NodeNames == {"n1"}

Init ==
    /\ nodes = [n \in NodeNames |->
                  NewNodeInfo(TRUE, NewResource(AllocCPU, AllocMem),
                              NewResource(AllocCPU, AllocMem))]
    /\ err = "nil"
    /\ underflow = FALSE
    /\ tasks = <<>>
    /\ stmt = <<>>
    /\ pre = <<>>
    /\ binds = {}
    /\ pc = "node"
    /\ present = {}
    /\ waited = <<>>
    /\ tried = {}
    /\ enable = FALSE
    /\ jobs = <<>>
    /\ NoConf
    /\ NoOut

\* The counters that can drift upwards stay within the bound of the model.
InBound(ni) ==
    /\ ni.Idle.cpu <= MaxCounter /\ ni.Idle.mem <= MaxCounter
    /\ ni.Releasing.cpu <= MaxCounter /\ ni.Releasing.mem <= MaxCounter

\* RemoveTask looks only at the key of its argument.
RemoveInputs ==
    {t \in TaskInputs : t.Status = Running /\ ~t.IsBackfill /\ ~t.PodBackfill
                        /\ t.Resreq = NewResource(1, 0)}

DoAddTask(n, t) ==
    /\ InBound(AddTask(nodes[n], t).ni)
    /\ nodes' = [nodes EXCEPT ![n] = AddTask(@, t).ni]
    /\ err' = AddTask(nodes[n], t).err
    /\ underflow' = (underflow \/ AddTaskUnderflow(nodes[n], t))
    /\ UNCHANGED <<ssnVars, cycleVars, confVars, outVars>>

DoRemoveTask(n, t) ==
    /\ InBound(RemoveTask(nodes[n], t).ni)
    /\ nodes' = [nodes EXCEPT ![n] = RemoveTask(@, t).ni]
    /\ err' = RemoveTask(nodes[n], t).err
    /\ underflow' = (underflow \/ RemoveTaskUnderflow(nodes[n], t))
    /\ UNCHANGED <<ssnVars, cycleVars, confVars, outVars>>

DoUpdateTask(n, t) ==
    /\ InBound(UpdateTask(nodes[n], t).ni)
    /\ nodes' = [nodes EXCEPT ![n] = UpdateTask(@, t).ni]
    /\ err' = UpdateTask(nodes[n], t).err
    /\ underflow' = (underflow \/ UpdateTaskUnderflow(nodes[n], t))
    /\ UNCHANGED <<ssnVars, cycleVars, confVars, outVars>>

Next ==
    \/ \E n \in NodeNames, t \in TaskInputs : DoAddTask(n, t)
    \/ \E n \in NodeNames, t \in RemoveInputs : DoRemoveTask(n, t)
    \/ \E n \in NodeNames, t \in TaskInputs : DoUpdateTask(n, t)

Spec == Init /\ [][Next]_vars

(***************************************************************************)
(* Sums over the tasks a node holds.                                       *)
(***************************************************************************)
RECURSIVE SumResreq(_, _)
SumResreq(ts, keys) ==
    IF keys = {} THEN EmptyResource
    ELSE LET k == CHOOSE x \in keys : TRUE
         IN  Add(ts[k].Resreq, SumResreq(ts, keys \ {k}))

PipelinedResreq(ni) ==
    SumResreq(ni.Tasks, {k \in DOMAIN ni.Tasks : ni.Tasks[k].Status = Pipelined})

HasTask(ni, status) == \E k \in DOMAIN ni.Tasks : ni.Tasks[k].Status = status

(***************************************************************************)
(* C3 as stated: for every node that has a node object,                    *)
(* Idle + Used - Releasing = Allocatable in every resource dimension.      *)
(***************************************************************************)
C3_IdleUsedReleasing ==
    \A n \in NodeNames :
        nodes[n].Node =>
            /\ nodes[n].Idle.cpu + nodes[n].Used.cpu - nodes[n].Releasing.cpu
                 = nodes[n].Allocatable.cpu
            /\ nodes[n].Idle.mem + nodes[n].Used.mem - nodes[n].Releasing.mem
                 = nodes[n].Allocatable.mem

(***************************************************************************)
(* C3 as amended: for every node that has a node object, Idle + Used is    *)
(* at least Allocatable plus the requests of the node's Pipelined tasks,   *)
(* in every resource dimension, and equal to it as long as no subtraction  *)
(* was from a smaller counter.  Releasing is not part of the balance.      *)
(***************************************************************************)
C3_IdleUsedPipelined ==
    \A n \in NodeNames :
        nodes[n].Node =>
            LET lhs == Add(nodes[n].Idle, nodes[n].Used)
                rhs == Add(nodes[n].Allocatable, PipelinedResreq(nodes[n]))
            IN  /\ LessEqual(rhs, lhs)
                /\ ~underflow => lhs = rhs

C3_Witness ==
    /\ ~underflow
    /\ HasTask(nodes["n1"], Pipelined)
    /\ HasTask(nodes["n1"], Releasing)
    /\ nodes["n1"].Idle.cpu + nodes["n1"].Used.cpu > nodes["n1"].Allocatable.cpu

(***************************************************************************)
(* C4: for every node, 0 <= Backfilled <= Used in every resource           *)
(* dimension, for tasks of any status and any combination of the task's    *)
(* IsBackfill flag and the pod's backfill marker.                          *)
(***************************************************************************)
C4_BackfilledWithinUsed ==
    \A n \in NodeNames :
        /\ LessEqual(EmptyResource, nodes[n].Backfilled)
        /\ LessEqual(nodes[n].Backfilled, nodes[n].Used)

C4_Witness ==
    /\ nodes["n1"].Backfilled.cpu > 0
    /\ nodes["n1"].Backfilled.cpu < nodes["n1"].Used.cpu
    /\ \E k \in DOMAIN nodes["n1"].Tasks :
          nodes["n1"].Tasks[k].PodBackfill /\ nodes["n1"].Tasks[k].IsBackfill

(***************************************************************************)
(* C5: AddTask of a task with request r whose key is not on a node that    *)
(* has a node object: Releasing: Releasing += r and Idle -= r; Pipelined:  *)
(* Releasing -= r and Idle unchanged; any other status: Idle -= r and      *)
(* Releasing unchanged; always Used += r; Backfilled += r exactly when the *)
(* task stored on the node is flagged IsBackfill; Allocatable and          *)
(* Capability unchanged.                                                   *)
(***************************************************************************)
C5_AddTaskEffect ==
    [][\A n \in NodeNames, t \in TaskInputs :
          (DoAddTask(n, t) /\ PodKey(t) \notin DOMAIN nodes[n].Tasks /\ nodes[n].Node) =>
             LET old == nodes[n]
                 new == nodes'[n]
                 r == t.Resreq
                 stored == new.Tasks[PodKey(t)]
             IN  /\ t.Status = Releasing =>
                       new.Releasing = Add(old.Releasing, r) /\ new.Idle = Sub(old.Idle, r)
                 /\ t.Status = Pipelined =>
                       new.Releasing = Sub(old.Releasing, r) /\ new.Idle = old.Idle
                 /\ t.Status \notin {Releasing, Pipelined} =>
                       new.Idle = Sub(old.Idle, r) /\ new.Releasing = old.Releasing
                 /\ new.Used = Add(old.Used, r)
                 /\ new.Backfilled = IF stored.IsBackfill
                                     THEN Add(old.Backfilled, r) ELSE old.Backfilled
                 /\ new.Allocatable = old.Allocatable
                 /\ new.Capability = old.Capability]_vars

(***************************************************************************)
(* C6: RemoveTask is the exact inverse of AddTask: after AddTask of a task *)
(* whose key is not on the node, RemoveTask of the same task restores      *)
(* Idle, Used, Releasing, Backfilled and the task set.                     *)
(***************************************************************************)
C6_RemoveInvertsAdd ==
    [][\A n \in NodeNames, t \in TaskInputs :
          (DoAddTask(n, t) /\ PodKey(t) \notin DOMAIN nodes[n].Tasks) =>
             RemoveTask(nodes'[n], t).ni = nodes[n]]_vars

(***************************************************************************)
(* C7: AddTask of a task whose key is already on the node returns an error *)
(* and leaves the task set and all counters unchanged.                     *)
(***************************************************************************)
C7_DuplicateAdd ==
    [][\A n \in NodeNames, t \in TaskInputs :
          (DoAddTask(n, t) /\ PodKey(t) \in DOMAIN nodes[n].Tasks) =>
             err' # "nil" /\ nodes' = nodes]_vars

C7_Witness ==
    /\ err = "already on node"
    /\ Cardinality(DOMAIN nodes["n1"].Tasks) = MaxTasks

(***************************************************************************)
(* C8: RemoveTask of a task whose key is not on the node returns an error  *)
(* and leaves the task set and all counters unchanged; UpdateTask of such  *)
(* a task returns the same error and adds nothing.                         *)
(***************************************************************************)
C8_RemoveUnknown ==
    [][\A n \in NodeNames :
          /\ \A t \in RemoveInputs :
                (DoRemoveTask(n, t) /\ PodKey(t) \notin DOMAIN nodes[n].Tasks) =>
                   err' # "nil" /\ nodes' = nodes
          /\ \A t \in TaskInputs :
                (DoUpdateTask(n, t) /\ PodKey(t) \notin DOMAIN nodes[n].Tasks) =>
                   /\ err' = RemoveTask(nodes[n], t).err
                   /\ err' # "nil"
                   /\ nodes' = nodes]_vars

C8_Witness ==
    /\ err = "failed to find task"
    /\ nodes["n1"].Tasks # NoTasks

(***************************************************************************)
(* Statement: the session's buffer of tentative operations.  Each          *)
(* operation changes the task and the node at once and is recorded in the  *)
(* statement; Discard undoes the recorded operations, last one first.      *)
(***************************************************************************)
StatementAllocate(ns, ts, k, n) ==
    LET t == [ts[k] EXCEPT !.Status = Allocated, !.NodeName = n]
    IN  [nodes |-> [ns EXCEPT ![n] = AddTask(@, t).ni],
         tasks |-> [ts EXCEPT ![k] = t]]

StatementPipeline(ns, ts, k, n) ==
    LET t == [ts[k] EXCEPT !.Status = Pipelined, !.NodeName = n]
    IN  [nodes |-> [ns EXCEPT ![n] = AddTask(@, t).ni],
         tasks |-> [ts EXCEPT ![k] = t]]

StatementEvict(ns, ts, k) ==
    LET t == [ts[k] EXCEPT !.Status = Releasing]
    IN  [nodes |-> [ns EXCEPT ![t.NodeName] = UpdateTask(@, t).ni],
         tasks |-> [ts EXCEPT ![k] = t]]

\* The inverse of one recorded operation.
StatementUndo(ns, ts, o) ==
    IF o.name = "evict"
    THEN LET t == [ts[o.task] EXCEPT !.Status = Running]
         IN  [nodes |-> [ns EXCEPT ![o.node] = UpdateTask(@, t).ni],
              tasks |-> [ts EXCEPT ![o.task] = t]]
    ELSE LET t == [ts[o.task] EXCEPT !.Status = Pending, !.NodeName = ""]
         IN  [nodes |-> [ns EXCEPT ![o.node] = RemoveTask(@, ts[o.task]).ni],
              tasks |-> [ts EXCEPT ![o.task] = t]]

RECURSIVE StatementDiscard(_, _, _)
StatementDiscard(ns, ts, ops) ==
    IF ops = <<>> THEN [nodes |-> ns, tasks |-> ts]
    ELSE LET u == StatementUndo(ns, ts, ops[Len(ops)])
         IN  StatementDiscard(u.nodes, u.tasks, SubSeq(ops, 1, Len(ops) - 1))

\* The binds a Commit of the recorded operations hands over.
StatementCommit(ops) ==
    {<<ops[i].task, ops[i].node>> : i \in {j \in 1..Len(ops) : ops[j].name = "allocate"}}

(***************************************************************************)
(* A session state as the cache builds it: every task that is not Pending  *)
(* has been added to its node.                                             *)
(***************************************************************************)
RECURSIVE AddAll(_, _, _)
AddAll(ni, ts, keys) ==
    IF keys = {} THEN ni
    ELSE LET k == CHOOSE x \in keys : \A y \in keys : x <= y
         IN  AddAll(AddTask(ni, ts[k]).ni, ts, keys \ {k})

OnNode(ts) == {k \in DOMAIN ts : ts[k].Status # Pending}

SessionTasks ==
    {t \in [key : TaskKeys, Status : {Pending, Running, Releasing},
            Resreq : Requests, IsBackfill : BOOLEAN, PodBackfill : BOOLEAN,
            NodeName : {"", "n1"}] :
        /\ (t.Status = Pending) <=> (t.NodeName = "")
        /\ (t.Status = Pending) => (~t.IsBackfill /\ ~t.PodBackfill)}

InitStmt ==
    /\ \E c \in 1..MaxSlots, ts \in [TaskKeys -> SessionTasks] :
          /\ \A k \in TaskKeys : ts[k].key = k
          /\ LessEqual(SumResreq(ts, OnNode(ts)), NewResource(c, AllocMem))
          /\ tasks = ts
          /\ nodes = [n \in NodeNames |->
                        AddAll(NewNodeInfo(TRUE, NewResource(c, AllocMem),
                                           NewResource(c, AllocMem)),
                               ts, OnNode(ts))]
    /\ err = "nil"
    /\ underflow = FALSE
    /\ stmt = <<>>
    /\ pre = [nodes |-> nodes, tasks |-> tasks]
    /\ binds = {}
    /\ pc = "stmt"
    /\ present = {}
    /\ waited = <<>>
    /\ tried = {}
    /\ enable = FALSE
    /\ jobs = <<>>
    /\ NoConf
    /\ NoOut

StmtAllocate(k, n) ==
    /\ pc = "stmt"
    /\ tasks[k].Status = Pending
    /\ LessEqual(tasks[k].Resreq, nodes[n].Idle)
    /\ nodes' = StatementAllocate(nodes, tasks, k, n).nodes
    /\ tasks' = StatementAllocate(nodes, tasks, k, n).tasks
    /\ stmt' = Append(stmt, [name |-> "allocate", task |-> k, node |-> n])
    /\ UNCHANGED <<err, underflow, pre, binds, pc, cycleVars, confVars, outVars>>

StmtPipeline(k, n) ==
    /\ pc = "stmt"
    /\ tasks[k].Status = Pending
    /\ LessEqual(tasks[k].Resreq, nodes[n].Releasing)
    /\ nodes' = StatementPipeline(nodes, tasks, k, n).nodes
    /\ tasks' = StatementPipeline(nodes, tasks, k, n).tasks
    /\ stmt' = Append(stmt, [name |-> "pipeline", task |-> k, node |-> n])
    /\ UNCHANGED <<err, underflow, pre, binds, pc, cycleVars, confVars, outVars>>

StmtEvict(k) ==
    /\ pc = "stmt"
    /\ tasks[k].Status = Running
    /\ nodes' = StatementEvict(nodes, tasks, k).nodes
    /\ tasks' = StatementEvict(nodes, tasks, k).tasks
    /\ stmt' = Append(stmt, [name |-> "evict", task |-> k, node |-> tasks[k].NodeName])
    /\ UNCHANGED <<err, underflow, pre, binds, pc, cycleVars, confVars, outVars>>

StmtDiscard ==
    /\ pc = "stmt"
    /\ nodes' = StatementDiscard(nodes, tasks, stmt).nodes
    /\ tasks' = StatementDiscard(nodes, tasks, stmt).tasks
    /\ stmt' = <<>>
    /\ pc' = "discarded"
    /\ UNCHANGED <<err, underflow, pre, binds, cycleVars, confVars, outVars>>

StmtCommit ==
    /\ pc = "stmt"
    /\ binds' = binds \cup StatementCommit(stmt)
    /\ stmt' = <<>>
    /\ pc' = "committed"
    /\ UNCHANGED <<nodeVars, tasks, pre, cycleVars, confVars, outVars>>

StmtOpen ==
    /\ pc \in {"discarded", "committed"}
    /\ pre' = [nodes |-> nodes, tasks |-> tasks]
    /\ pc' = "stmt"
    /\ UNCHANGED <<nodeVars, tasks, stmt, binds, cycleVars, confVars, outVars>>

NextStmt ==
    \/ \E k \in TaskKeys, n \in NodeNames : StmtAllocate(k, n)
    \/ \E k \in TaskKeys, n \in NodeNames : StmtPipeline(k, n)
    \/ \E k \in TaskKeys : StmtEvict(k)
    \/ StmtDiscard
    \/ StmtCommit
    \/ StmtOpen

SpecStmt == InitStmt /\ [][NextStmt]_vars

(***************************************************************************)
(* C9: Discard leaves every node's Idle, Used, Releasing, Backfilled and   *)
(* task set, and every task's status and node assignment, equal to their   *)
(* values before the statement was opened.                                 *)
(***************************************************************************)
C9_DiscardRestores ==
    pc = "discarded" => (nodes = pre.nodes /\ tasks = pre.tasks)

(***************************************************************************)
(* The scheduling cycle: jobs come and go between cycles; a cycle opens a  *)
(* session, runs the allocate action and then the backfill action, and     *)
(* closes the session.                                                     *)
(***************************************************************************)
StarvationThreshold == 1

JobIds == 1..MaxJobs

SsnKeys == 1..(MaxJobs * MaxJobSize)

JobOf(k) == ((k - 1) \div MaxJobSize) + 1

IndexOf(k) == ((k - 1) % MaxJobSize) + 1

\* The tasks of job j.
TasksOf(js, j) == {k \in SsnKeys : JobOf(k) = j /\ IndexOf(k) <= js[j].Size}

NewTask(k) ==
    [key |-> k, Status |-> Pending, Resreq |-> NewResource(1, 0),
     IsBackfill |-> FALSE, PodBackfill |-> FALSE, NodeName |-> ""]

ReadyStatuses == {Allocated, Pipelined, Running}

ReadyTaskNum(ts, js, j) ==
    Cardinality({k \in TasksOf(js, j) : ts[k].Status \in ReadyStatuses})

\* A variant of the gang admission predicate that admits every job.
JobReadyAlways(j) == TRUE

\* JobReadyFn: the gang admission predicate.
JobReady(j) == ReadyTaskNum(tasks, jobs, j) >= jobs[j].MinMember

PendingTasks(j) == {k \in TasksOf(jobs, j) : tasks[k].Status = Pending}

\* A variant of the fit test that counts the backfilled capacity as free.
FitsAccessible(k, n) ==
    LessEqual(tasks[k].Resreq, Add(nodes[n].Idle, nodes[n].Backfilled))

Fits(k, n) == LessEqual(tasks[k].Resreq, nodes[n].Idle)

\* The operations of the open statement that belong to job j, and the rest.
OpsOf(j) == SelectSeq(stmt, LAMBDA o : JobOf(o.task) = j)

OpsNotOf(j) == SelectSeq(stmt, LAMBDA o : JobOf(o.task) # j)

\* A variant of the guard that never suppresses the backfill action.
StarvingNever == FALSE

\* The starvation guard: some job has been pending for longer than the
\* threshold and is still not ready.
Starving ==
    \E j \in present : ~JobReady(j) /\ waited[j] > StarvationThreshold

\* A variant of the backfill action that finds no task to place.
BackfillEligibleNone(k, n) == FALSE

BackfillEligible(k, n) ==
    /\ JobOf(k) \in present
    /\ k \in PendingTasks(JobOf(k))
    /\ jobs[JobOf(k)].MinMember = 1
    /\ Fits(k, n)

RECURSIVE RemoveAll(_, _, _)
RemoveAll(ni, ts, keys) ==
    IF keys = {} THEN ni
    ELSE LET k == CHOOSE x \in keys : \A y \in keys : x <= y
         IN  RemoveAll(RemoveTask(ni, ts[k]).ni, ts, keys \ {k})

RECURSIVE UpdateAll(_, _, _)
UpdateAll(ni, ts, keys) ==
    IF keys = {} THEN ni
    ELSE LET k == CHOOSE x \in keys : \A y \in keys : x <= y
         IN  UpdateAll(UpdateTask(ni, ts[k]).ni, ts, keys \ {k})

JobShapes == {sh \in [Size : 1..MaxJobSize, MinMember : 1..MaxJobSize] :
                 sh.MinMember <= sh.Size}

InitSsn ==
    /\ \E c \in 1..MaxSlots :
          nodes = [n \in NodeNames |->
                     NewNodeInfo(TRUE, NewResource(c, AllocMem),
                                 NewResource(c, AllocMem))]
    /\ jobs \in [JobIds -> JobShapes]
    /\ enable \in BOOLEAN
    /\ tasks = [k \in SsnKeys |-> NewTask(k)]
    /\ err = "nil"
    /\ underflow = FALSE
    /\ stmt = <<>>
    /\ pre = <<>>
    /\ binds = {}
    /\ pc = "events"
    /\ present = {}
    /\ waited = [j \in JobIds |-> 0]
    /\ tried = {}
    /\ NoConf
    /\ NoOut

\* A job is created: its tasks are pending.
SubmitJob(j) ==
    /\ pc = "events"
    /\ j \notin present
    /\ present' = present \cup {j}
    /\ waited' = [waited EXCEPT ![j] = 0]
    /\ UNCHANGED <<nodeVars, ssnVars, tried, enable, jobs, confVars, outVars>>

\* A job is deleted: its tasks leave their nodes.
DeleteJob(j) ==
    /\ pc = "events"
    /\ j \in present
    /\ present' = present \ {j}
    /\ waited' = [waited EXCEPT ![j] = 0]
    /\ nodes' = [n \in NodeNames |->
                   RemoveAll(nodes[n], tasks,
                             {k \in TasksOf(jobs, j) : tasks[k].NodeName = n})]
    /\ tasks' = [k \in SsnKeys |-> IF JobOf(k) = j THEN NewTask(k) ELSE tasks[k]]
    /\ binds' = {b \in binds : JobOf(b[1]) # j}
    /\ UNCHANGED <<err, underflow, stmt, pre, pc, tried, enable, jobs, confVars, outVars>>

\* Time passes for the jobs that are not ready.
Tick ==
    /\ pc = "events"
    /\ \E j \in present : ~JobReady(j) /\ waited[j] <= StarvationThreshold
    /\ waited' = [j \in JobIds |->
                    IF j \in present /\ ~JobReady(j) /\ waited[j] <= StarvationThreshold
                    THEN waited[j] + 1 ELSE waited[j]]
    /\ UNCHANGED <<nodeVars, ssnVars, present, tried, enable, jobs, confVars, outVars>>

OpenSession ==
    /\ pc = "events"
    /\ present # {}
    /\ pc' = "allocate"
    /\ tried' = {}
    /\ UNCHANGED <<nodeVars, tasks, stmt, pre, binds, present, waited, enable, jobs, confVars, outVars>>

\* A pending task is tentatively allocated to a node whose Idle it fits.
AllocateTask(k, n) ==
    /\ pc = "allocate"
    /\ JobOf(k) \in present \ tried
    /\ k \in PendingTasks(JobOf(k))
    /\ Fits(k, n)
    /\ nodes' = StatementAllocate(nodes, tasks, k, n).nodes
    /\ tasks' = StatementAllocate(nodes, tasks, k, n).tasks
    /\ stmt' = Append(stmt, [name |-> "allocate", task |-> k, node |-> n])
    /\ UNCHANGED <<err, underflow, pre, binds, pc, cycleVars, confVars, outVars>>

\* The statement of a job is closed once none of its pending tasks fits:
\* committed if the job is ready, discarded otherwise.
CloseStatement(j) ==
    /\ pc = "allocate"
    /\ j \in present \ tried
    /\ \A k \in PendingTasks(j), n \in NodeNames : ~Fits(k, n)
    /\ IF JobReady(j)
       THEN /\ binds' = binds \cup StatementCommit(OpsOf(j))
            /\ UNCHANGED <<nodes, tasks>>
       ELSE /\ nodes' = StatementDiscard(nodes, tasks, OpsOf(j)).nodes
            /\ tasks' = StatementDiscard(nodes, tasks, OpsOf(j)).tasks
            /\ UNCHANGED binds
    /\ stmt' = OpsNotOf(j)
    /\ tried' = tried \cup {j}
    /\ UNCHANGED <<err, underflow, pre, pc, present, waited, enable, jobs, confVars, outVars>>

\* The allocate action is over when every job has been tried.
ExecuteBackfill ==
    /\ pc = "allocate"
    /\ present \subseteq tried
    /\ pc' = "backfill"
    /\ UNCHANGED <<nodeVars, tasks, stmt, pre, binds, cycleVars, confVars, outVars>>

\* The backfill action allocates a pending task of a MinMember = 1 job to a
\* node whose Idle it fits and commits it at once, flagged IsBackfill.
BackfillTask(k, n) ==
    /\ pc = "backfill"
    /\ enable
    /\ ~Starving
    /\ BackfillEligible(k, n)
    /\ LET ts == [tasks EXCEPT ![k].IsBackfill = TRUE]
       IN  /\ nodes' = StatementAllocate(nodes, ts, k, n).nodes
           /\ tasks' = StatementAllocate(nodes, ts, k, n).tasks
    /\ binds' = binds \cup {<<k, n>>}
    /\ UNCHANGED <<err, underflow, stmt, pre, pc, cycleVars, confVars, outVars>>

\* The session is closed; the tasks handed to the binder start running.
CloseSession ==
    /\ pc = "backfill"
    /\ (enable /\ ~Starving) =>
          \A k \in SsnKeys, n \in NodeNames : ~BackfillEligible(k, n)
    /\ pc' = "events"
    /\ LET ts == [k \in SsnKeys |->
                    IF tasks[k].Status = Allocated
                    THEN [tasks[k] EXCEPT !.Status = Running] ELSE tasks[k]]
       IN  /\ tasks' = ts
           /\ nodes' = [n \in NodeNames |->
                          UpdateAll(nodes[n], ts,
                                    {k \in SsnKeys : tasks[k].Status = Allocated
                                                     /\ tasks[k].NodeName = n})]
    /\ UNCHANGED <<err, underflow, stmt, pre, binds, cycleVars, confVars, outVars>>

NextSsn ==
    \/ \E j \in JobIds : SubmitJob(j)
    \/ \E j \in JobIds : DeleteJob(j)
    \/ Tick
    \/ OpenSession
    \/ \E k \in SsnKeys, n \in NodeNames : AllocateTask(k, n)
    \/ \E j \in JobIds : CloseStatement(j)
    \/ ExecuteBackfill
    \/ \E k \in SsnKeys, n \in NodeNames : BackfillTask(k, n)
    \/ CloseSession

SpecSsn == InitSsn /\ [][NextSsn]_vars

(***************************************************************************)
(* C1: a task is handed to the binder only if its job has at least         *)
(* MinMember tasks in the ready statuses when its statement is committed,  *)
(* and a job with fewer than MinMember ready tasks has no task bound.      *)
(***************************************************************************)
C1_GangAdmission ==
    [][/\ \A b \in binds' \ binds :
             ReadyTaskNum(tasks', jobs', JobOf(b[1])) >= jobs'[JobOf(b[1])].MinMember
       /\ \A j \in present' :
             ReadyTaskNum(tasks', jobs', j) < jobs'[j].MinMember =>
                ~\E b \in binds' : JobOf(b[1]) = j]_vars

C1_Witness ==
    /\ pc = "backfill"
    /\ binds # {}
    /\ \E j \in present \cap tried :
          /\ jobs[j].MinMember > 1
          /\ ReadyTaskNum(tasks, jobs, j) < jobs[j].MinMember
          /\ \A k \in TasksOf(jobs, j) : tasks[k].Status = Pending

(***************************************************************************)
(* C2: backfill enabled, one node that fits exactly one task, a job with   *)
(* MinMember = 2 and a job with MinMember = 1, all tasks pending when the  *)
(* session opens: when the session closes the binder has received exactly  *)
(* one bind, for the task of the MinMember = 1 job, whatever the order of  *)
(* the tentative allocations.                                              *)
(***************************************************************************)
C2_Scenario(a, b) ==
    /\ a # b
    /\ present = {a, b}
    /\ jobs[a] = [Size |-> 2, MinMember |-> 2]
    /\ jobs[b] = [Size |-> 1, MinMember |-> 1]
    /\ enable
    /\ nodes["n1"].Allocatable.cpu = 1
    /\ \A j \in present : waited[j] <= StarvationThreshold

C2_OneBind ==
    [][\A a \in JobIds, b \in JobIds :
          (/\ pc = "backfill" /\ pc' = "events"
           /\ C2_Scenario(a, b)
           /\ \A k \in SsnKeys : tasks[k].Status # Running) =>
              binds' = {<<CHOOSE k \in TasksOf(jobs, b) : TRUE, "n1">>}]_vars

C2_Witness ==
    /\ pc = "events"
    /\ \E a \in JobIds, b \in JobIds :
          /\ C2_Scenario(a, b)
          /\ \A k \in TasksOf(jobs, a) : tasks[k].Status = Pending
          /\ \E k \in TasksOf(jobs, b) :
                /\ binds = {<<k, "n1">>}
                /\ tasks[k].Status = Running
                /\ tasks[k].IsBackfill

(***************************************************************************)
(* C10: in a cycle in which some job has been pending for longer than      *)
(* StarvationThreshold and is still not ready, the backfill action commits *)
(* no allocation, even when a task of a MinMember = 1 job fits Idle.       *)
(***************************************************************************)
PastThreshold ==
    \E j \in present :
        /\ ReadyTaskNum(tasks, jobs, j) < jobs[j].MinMember
        /\ waited[j] > StarvationThreshold

C10_StarvationGuard ==
    [][(pc = "backfill" /\ PastThreshold) => binds' = binds]_vars

C10_Witness ==
    /\ pc = "backfill"
    /\ enable
    /\ PastThreshold
    /\ \E k \in SsnKeys, n \in NodeNames : BackfillEligible(k, n)

(***************************************************************************)
(* The scheduling cycle with the order of the allocate action: jobs of one *)
(* queue are taken in JobOrderFn order, the pending tasks of a job in      *)
(* TaskOrderFn order, one statement per job.  Tasks of one job may request *)
(* different amounts.  Pods that belong to no job (a replica set) may      *)
(* occupy the node.  The session has backfill enabled.                     *)
(***************************************************************************)
MaxPriority == 2
MaxReq == 2

\* The key of the i-th task of job j; tasks are ranked by their index.
KeyOf(j, i) == (j - 1) * MaxJobSize + i

\* Head is the request of the job's highest-ranked task.
OrdShapes ==
    {sh \in [Size : 1..MaxJobSize, MinMember : 1..MaxJobSize,
             Priority : 1..MaxPriority, Head : 1..MaxReq] :
        sh.MinMember <= sh.Size}

OrdTask(js, k) ==
    [key |-> k, Status |-> Pending,
     Resreq |-> NewResource(IF IndexOf(k) = 1 THEN js[JobOf(k)].Head ELSE 1, 0),
     IsBackfill |-> FALSE, PodBackfill |-> FALSE, NodeName |-> ""]

\* The pods of the replica set: keys 0, -1, ...
OccupantKeys(o) == {1 - i : i \in 1..o}

OccupantTask(k) ==
    [key |-> k, Status |-> Running, Resreq |-> NewResource(1, 0),
     IsBackfill |-> FALSE, PodBackfill |-> FALSE, NodeName |-> "n1"]

InitOrd ==
    /\ \E c \in 1..MaxSlots, o \in 0..MaxSlots :
          /\ o <= c
          /\ nodes = [n \in NodeNames |->
                        AddAll(NewNodeInfo(TRUE, NewResource(c, AllocMem),
                                           NewResource(c, AllocMem)),
                               [k \in OccupantKeys(o) |-> OccupantTask(k)],
                               OccupantKeys(o))]
    /\ jobs \in [JobIds -> OrdShapes]
    /\ tasks = [k \in SsnKeys |-> OrdTask(jobs, k)]
    /\ enable = TRUE
    /\ err = "nil"
    /\ underflow = FALSE
    /\ stmt = <<>>
    /\ pre = <<>>
    /\ binds = {}
    /\ pc = "events"
    /\ present = {}
    /\ waited = [j \in JobIds |-> 0]
    /\ tried = {}
    /\ NoConf
    /\ NoOut

\* Jobs are created in the order of their ids.
OrdSubmitJob(j) ==
    /\ pc = "events"
    /\ j \notin present
    /\ \A i \in present : i < j
    /\ present' = present \cup {j}
    /\ waited' = [waited EXCEPT ![j] = 0]
    /\ UNCHANGED <<nodeVars, ssnVars, tried, enable, jobs, confVars, outVars>>

OrdDeleteJob(j) ==
    /\ pc = "events"
    /\ j \in present
    /\ present' = present \ {j}
    /\ waited' = [waited EXCEPT ![j] = 0]
    /\ nodes' = [n \in NodeNames |->
                   RemoveAll(nodes[n], tasks,
                             {k \in TasksOf(jobs, j) : tasks[k].NodeName = n})]
    /\ tasks' = [k \in SsnKeys |-> IF JobOf(k) = j THEN OrdTask(jobs, k) ELSE tasks[k]]
    /\ binds' = {b \in binds : JobOf(b[1]) # j}
    /\ UNCHANGED <<err, underflow, stmt, pre, pc, tried, enable, jobs, confVars, outVars>>

\* A pod of the replica set is deleted.
ReleaseOccupant(n) ==
    /\ pc = "events"
    /\ \E k \in DOMAIN nodes[n].Tasks :
          /\ k <= 0
          /\ \A x \in DOMAIN nodes[n].Tasks : k <= x
          /\ nodes' = [nodes EXCEPT ![n] = RemoveTask(@, OccupantTask(k)).ni]
    /\ UNCHANGED <<err, underflow, ssnVars, cycleVars, confVars, outVars>>

\* The starvation threshold elapses for the jobs that are not ready.
Elapse ==
    /\ pc = "events"
    /\ \E j \in present : ~JobReady(j) /\ waited[j] <= StarvationThreshold
    /\ waited' = [j \in JobIds |->
                    IF j \in present /\ ~JobReady(j)
                    THEN StarvationThreshold + 1 ELSE waited[j]]
    /\ UNCHANGED <<nodeVars, ssnVars, present, tried, enable, jobs, confVars, outVars>>

\* A variant of the job order that looks at the creation time only.
JobOrderFnByCreation(a, b) == a < b

\* JobOrderFn of the priority plugin: the higher declared priority first,
\* ties broken by creation time, the older job first.
JobOrderFn(a, b) ==
    \/ jobs[a].Priority > jobs[b].Priority
    \/ jobs[a].Priority = jobs[b].Priority /\ a < b

\* Steps 3 and 4 of the allocate action for the tasks of job j from the
\* i-th on: the first pending task that fits no node ends the loop.
RECURSIVE AllocateFrom(_, _, _, _, _)
AllocateFrom(ns, ts, ops, j, i) ==
    IF i > jobs[j].Size THEN [nodes |-> ns, tasks |-> ts, ops |-> ops]
    ELSE LET k == KeyOf(j, i)
             feasible == {n \in NodeNames : LessEqual(ts[k].Resreq, ns[n].Idle)}
         IN  IF ts[k].Status # Pending THEN AllocateFrom(ns, ts, ops, j, i + 1)
             ELSE IF feasible = {} THEN [nodes |-> ns, tasks |-> ts, ops |-> ops]
             ELSE LET n == CHOOSE x \in feasible : TRUE
                      a == StatementAllocate(ns, ts, k, n)
                  IN  AllocateFrom(a.nodes, a.tasks,
                                   Append(ops, [name |-> "allocate", task |-> k, node |-> n]),
                                   j, i + 1)

\* Steps 2 to 5 of the allocate action for job j: one statement, committed
\* if the job is ready at its end, discarded otherwise.
AllocateJobIn(st, j) ==
    LET r == AllocateFrom(st.nodes, st.tasks, <<>>, j, 1) IN
    IF ReadyTaskNum(r.tasks, jobs, j) >= jobs[j].MinMember
    THEN [nodes |-> r.nodes, tasks |-> r.tasks,
          binds |-> st.binds \cup StatementCommit(r.ops)]
    ELSE [nodes |-> StatementDiscard(r.nodes, r.tasks, r.ops).nodes,
          tasks |-> StatementDiscard(r.nodes, r.tasks, r.ops).tasks,
          binds |-> st.binds]

\* The highest-ranked job among js.
FirstJob(js) == CHOOSE j \in js : \A i \in js : i = j \/ JobOrderFn(j, i)

\* The allocate action for the highest-ranked job not yet tried.
AllocateJob(j) ==
    /\ pc = "allocate"
    /\ present \ tried # {}
    /\ j = FirstJob(present \ tried)
    /\ LET r == AllocateJobIn([nodes |-> nodes, tasks |-> tasks, binds |-> binds], j)
       IN  /\ nodes' = r.nodes
           /\ tasks' = r.tasks
           /\ binds' = r.binds
    /\ tried' = tried \cup {j}
    /\ UNCHANGED <<err, underflow, stmt, pre, pc, present, waited, enable, jobs, confVars, outVars>>

NextOrd ==
    \/ \E j \in JobIds : OrdSubmitJob(j)
    \/ \E j \in JobIds : OrdDeleteJob(j)
    \/ \E n \in NodeNames : ReleaseOccupant(n)
    \/ Elapse
    \/ OpenSession
    \/ \E j \in JobIds : AllocateJob(j)
    \/ ExecuteBackfill
    \/ \E k \in SsnKeys, n \in NodeNames : BackfillTask(k, n)
    \/ CloseSession

SpecOrd == InitOrd /\ [][NextOrd]_vars

(***************************************************************************)
(* C11: once a gang job that the node could hold has starved past the      *)
(* threshold and a job with MinMember = 1 of the same priority is pending  *)
(* behind it, no task of the MinMember = 1 job is bound while the gang job *)
(* is not ready, whatever resources are released meanwhile.                *)
(***************************************************************************)
Bound(j) == \E b \in binds : JobOf(b[1]) = j

StarvedAhead(g, b) ==
    /\ g \in present /\ b \in present /\ g < b
    /\ jobs[g].Priority = jobs[b].Priority
    /\ jobs[g].MinMember > 1
    /\ LessEqual(SumResreq(tasks, {KeyOf(g, i) : i \in 1..jobs[g].MinMember}),
                 nodes["n1"].Allocatable)
    /\ ReadyTaskNum(tasks, jobs, g) < jobs[g].MinMember
    /\ waited[g] > StarvationThreshold
    /\ jobs[b].MinMember = 1
    /\ ~Bound(b)

C11_StarvingFirst ==
    [][\A g \in JobIds, b \in JobIds :
          (StarvedAhead(g, b) /\ Bound(b)') =>
              (ReadyTaskNum(tasks', jobs', g) >= jobs'[g].MinMember)]_vars

(***************************************************************************)
(* The scheduling cycle as one step.  Events that arrive during a session  *)
(* do not reach it, so a cycle (open the session, the allocate action for  *)
(* every job in order, the backfill action, close the session) is atomic   *)
(* for the rest of the system.  The scheduler runs a cycle whenever its    *)
(* timer fires; nothing is assumed about the arrival and removal of jobs.  *)
(***************************************************************************)
RECURSIVE AllocateAll(_, _)
AllocateAll(st, js) ==
    IF js = {} THEN st
    ELSE LET j == FirstJob(js) IN AllocateAll(AllocateJobIn(st, j), js \ {j})

StarvingIn(ts) ==
    \E j \in present :
        /\ ReadyTaskNum(ts, jobs, j) < jobs[j].MinMember
        /\ waited[j] > StarvationThreshold

\* The backfill action for one task.
BackfillTaskIn(st, k) ==
    LET feasible == {n \in NodeNames : LessEqual(st.tasks[k].Resreq, st.nodes[n].Idle)} IN
    IF jobs[JobOf(k)].MinMember = 1 /\ st.tasks[k].Status = Pending /\ feasible # {}
    THEN LET n == CHOOSE x \in feasible : TRUE
             ts == [st.tasks EXCEPT ![k].IsBackfill = TRUE]
             a == StatementAllocate(st.nodes, ts, k, n)
         IN  [nodes |-> a.nodes, tasks |-> a.tasks, binds |-> st.binds \cup {<<k, n>>}]
    ELSE st

\* The first of the tasks ks: by the order of the jobs, then by rank.
FirstKey(ks) ==
    CHOOSE k \in ks : \A x \in ks :
        \/ x = k
        \/ JobOf(k) = JobOf(x) /\ k < x
        \/ JobOf(k) # JobOf(x) /\ JobOrderFn(JobOf(k), JobOf(x))

RECURSIVE BackfillFrom(_, _)
BackfillFrom(st, ks) ==
    IF ks = {} THEN st
    ELSE LET k == FirstKey(ks) IN BackfillFrom(BackfillTaskIn(st, k), ks \ {k})

BackfillAll(st) ==
    IF ~enable \/ StarvingIn(st.tasks) THEN st
    ELSE BackfillFrom(st, UNION {TasksOf(jobs, j) : j \in present})

\* Closing the session: the tasks handed to the binder start running.
CloseSessionIn(st) ==
    LET ts == [k \in SsnKeys |->
                 IF st.tasks[k].Status = Allocated
                 THEN [st.tasks[k] EXCEPT !.Status = Running] ELSE st.tasks[k]]
    IN  [nodes |-> [n \in NodeNames |->
                      UpdateAll(st.nodes[n], ts,
                                {k \in SsnKeys : st.tasks[k].Status = Allocated
                                                 /\ st.tasks[k].NodeName = n})],
         tasks |-> ts,
         binds |-> st.binds]

\* The timer of the scheduler fires: a cycle starts.
TimerFires ==
    /\ pc = "events"
    /\ present # {}
    /\ pc' = "run"
    /\ UNCHANGED <<nodeVars, tasks, stmt, pre, binds, cycleVars, confVars, outVars>>

RunOnce ==
    /\ pc = "run"
    /\ \E r \in {CloseSessionIn(BackfillAll(AllocateAll(
                    [nodes |-> nodes, tasks |-> tasks, binds |-> binds], present)))} :
          /\ nodes' = r.nodes
          /\ tasks' = r.tasks
          /\ binds' = r.binds
    /\ tried' = present
    /\ pc' = "events"
    /\ UNCHANGED <<err, underflow, stmt, pre, present, waited, enable, jobs, confVars, outVars>>

NextRun ==
    \/ \E j \in JobIds : OrdSubmitJob(j)
    \/ \E j \in JobIds : OrdDeleteJob(j)
    \/ \E n \in NodeNames : ReleaseOccupant(n)
    \/ Elapse
    \/ TimerFires
    \/ RunOnce

\* A cycle that has started runs to its end: a session is never cancelled.
CycleEnds == pc = "run" /\ pc' = "events"

\* All jobs declare the same priority.
InitRun == InitOrd /\ \A j \in JobIds : jobs[j].Priority = 1

SpecRun == InitRun /\ [][NextRun]_vars /\ WF_vars(TimerFires) /\ WF_pc(CycleEnds)

(***************************************************************************)
(* C12: a job with MinMember = 1 that the last cycle left pending, whose   *)
(* highest-ranked task the node can hold, and that is alone in the cluster *)
(* once the jobs and pods ahead of it have been removed, is eventually     *)
(* bound, as long as it stays alone in the cluster.                        *)
(***************************************************************************)
HeldBack(b) ==
    /\ pc = "events"
    /\ enable
    /\ present = {b}
    /\ b \in tried
    /\ jobs[b].MinMember = 1
    /\ ~Bound(b)
    /\ DOMAIN nodes["n1"].Tasks = {}
    /\ LessEqual(tasks[KeyOf(b, 1)].Resreq, nodes["n1"].Allocatable)

RunningOn(n) == {k \in SsnKeys : tasks[k].Status = Running /\ tasks[k].NodeName = n}

FreeAtOpen(n) == Sub(nodes[n].Allocatable, SumResreq(tasks, RunningOn(n)))

C13_Scenario(a, b) ==
    /\ a # b /\ a \in present /\ b \in present
    /\ enable
    /\ \A j \in present : waited[j] <= StarvationThreshold
    /\ jobs[a].MinMember > 1
    /\ \A k \in TasksOf(jobs, a) : tasks[k].Status # Running
    /\ \A n \in NodeNames :
          ~LessEqual(SumResreq(tasks, {k \in TasksOf(jobs, a) :
                                         IndexOf(k) <= jobs[a].MinMember}),
                     FreeAtOpen(n))
    /\ jobs[b].Size = 1 /\ jobs[b].MinMember = 1
    /\ \A k \in TasksOf(jobs, b) :
          /\ tasks[k].Status # Running
          /\ \E n \in NodeNames : LessEqual(tasks[k].Resreq, FreeAtOpen(n))
    /\ \A c \in present \ {a, b} :
          \A k \in TasksOf(jobs, c) : tasks[k].Status = Running

C13_BackfillSuccess ==
    [][\A a \in JobIds, b \in JobIds :
          (pc = "backfill" /\ pc' = "events" /\ C13_Scenario(a, b)) =>
              /\ \A k \in TasksOf(jobs, b) :
                    /\ \E n \in NodeNames : <<k, n>> \in binds'
                    /\ tasks'[k].Status = Running
              /\ \A k \in TasksOf(jobs, a) :
                    /\ tasks'[k].Status = Pending
                    /\ \A n \in NodeNames : <<k, n>> \notin binds']_vars

C13_Witness ==
    /\ pc = "events"
    /\ enable
    /\ \E a \in present, b \in present :
          /\ jobs[a].MinMember > 1
          /\ jobs[b].Size = 1 /\ jobs[b].MinMember = 1
          /\ \A j \in present : waited[j] <= StarvationThreshold
          /\ \A k \in TasksOf(jobs, a) : tasks[k].Status = Pending
          /\ \A k \in TasksOf(jobs, b) :
                /\ tasks[k].Status = Running /\ tasks[k].IsBackfill
                /\ <<k, "n1">> \in binds

(***************************************************************************)
(* C14: every bind made by the backfill action is for a task of a job with *)
(* MinMember = 1, the task is marked IsBackfill, and the Idle of the node, *)
(* without its Backfilled, was at least the request of the task when it    *)
(* was placed.                                                             *)
(***************************************************************************)
C14_BackfillCommits ==
    [][pc = "backfill" =>
          \A b \in binds' \ binds :
              /\ jobs[JobOf(b[1])].MinMember = 1
              /\ tasks'[b[1]].IsBackfill
              /\ nodes'[b[2]].Tasks[b[1]].IsBackfill
              /\ LessEqual(tasks[b[1]].Resreq, nodes[b[2]].Idle)]_vars

\* The backfill action has placed a task: the task is flagged and the node
\* counts its request as backfilled.
C14_Witness ==
    /\ pc = "backfill"
    /\ \E b \in binds :
          /\ jobs[JobOf(b[1])].MinMember = 1
          /\ tasks[b[1]].IsBackfill /\ tasks[b[1]].Status = Allocated
          /\ tasks[b[1]].NodeName = b[2]
          /\ nodes[b[2]].Backfilled = tasks[b[1]].Resreq

(***************************************************************************)
(* The configuration of the scheduler.  The configuration text is a        *)
(* sequence of the lines of its "actions" list: "- name: X" opens an       *)
(* action, "options:" (empty or "{}") and "enable: V" belong to the action *)
(* opened last.  loadSchedulerConf parses the text and fills the defaults, *)
(* getActions resolves the actions and collects the option of the backfill *)
(* action, and the scheduler starts its cycles with the result.            *)
(***************************************************************************)
MaxLines == 3

BackfillFlagName == "enable"

ActionNames == {"allocate", "backfill", "preempt"}

\* The actions registered with the framework.
RegisteredActions == {"allocate", "backfill"}

GetAction(name) == [action |-> name, found |-> name \in RegisteredActions]

FlagValues == {"true", "false"}

ConfLines ==
    [kind : {"name"}, text : ActionNames]
        \cup [kind : {"options"}, text : {"", "{}"}]
        \cup [kind : {"option"}, text : FlagValues]

ConfStrs == UNION {[1..n -> ConfLines] : n \in 0..MaxLines}

defaultSchedulerConf ==
    <<[kind |-> "name", text |-> "allocate"], [kind |-> "name", text |-> "backfill"]>>

EmptyMap == [k \in {} |-> ""]

NilOptions == [isNil |-> TRUE, m |-> EmptyMap]

EmptyOptions == [isNil |-> FALSE, m |-> EmptyMap]

\* Reading a key of a map: the zero value when the key is missing or the map is nil.
MapGet(o, key) == IF ~o.isNil /\ key \in DOMAIN o.m THEN o.m[key] ELSE ""

MapFound(o, key) == ~o.isNil /\ key \in DOMAIN o.m

\* yaml.Unmarshal of the actions list: a later key of an action overrides an
\* earlier one; a key outside an action is a parse error.
RECURSIVE Unmarshal(_, _)
Unmarshal(lines, acc) ==
    IF lines = <<>> THEN [Actions |-> acc, err |-> "nil"]
    ELSE LET l == Head(lines)
             n == Len(acc)
         IN  IF l.kind = "name"
             THEN Unmarshal(Tail(lines),
                            Append(acc, [Name |-> l.text, Options |-> NilOptions]))
             ELSE IF n = 0 THEN [Actions |-> <<>>, err |-> "yaml"]
             ELSE IF l.kind = "options"
             THEN Unmarshal(Tail(lines),
                            [acc EXCEPT ![n].Options =
                                IF l.text = "{}" THEN EmptyOptions ELSE NilOptions])
             ELSE Unmarshal(Tail(lines),
                            [acc EXCEPT ![n].Options =
                                [isNil |-> FALSE,
                                 m |-> (BackfillFlagName :> l.text) @@ @.m]])

\* A variant of the default that enables the backfill action.
DefaultBackfillFlagTrue == "true"

DefaultBackfillFlag == "false"

RECURSIVE ApplyActionDefaults(_, _)
ApplyActionDefaults(acts, i) ==
    IF i > Len(acts) THEN [conf |-> acts, err |-> "nil"]
    ELSE IF ~GetAction(acts[i].Name).found
         THEN [conf |-> <<>>, err |-> "failed to found Action"]
    ELSE LET o1 == IF acts[i].Options.isNil THEN EmptyOptions ELSE acts[i].Options
             o2 == IF acts[i].Name = "backfill" /\ ~MapFound(o1, BackfillFlagName)
                   THEN [o1 EXCEPT !.m = (BackfillFlagName :> DefaultBackfillFlag) @@ @]
                   ELSE o1
         IN  ApplyActionDefaults([acts EXCEPT ![i].Options = o2], i + 1)

loadSchedulerConf(str) ==
    LET u == Unmarshal(str, <<>>)
    IN  IF u.err # "nil" THEN [conf |-> <<>>, err |-> u.err]
        ELSE ApplyActionDefaults(u.Actions, 1)

\* The lookup that fails calls Name() on the nil action it got back.
RECURSIVE getActionsFrom(_, _, _, _)
getActionsFrom(cas, i, as, ao) ==
    IF i > Len(cas) THEN [actions |-> as, actionOptions |-> ao, err |-> "nil"]
    ELSE IF ~GetAction(cas[i].Name).found
         THEN [actions |-> <<>>, actionOptions |-> EmptyMap, err |-> "panic"]
    ELSE getActionsFrom(cas, i + 1, Append(as, GetAction(cas[i].Name).action),
            IF GetAction(cas[i].Name).action = "backfill"
            THEN ("backfill" :> (BackfillFlagName :>
                                    MapGet(cas[i].Options, BackfillFlagName))) @@ ao
            ELSE ao)

getActions(conf) == getActionsFrom(conf, 1, <<>>, EmptyMap)

InitConf ==
    /\ \E c \in 1..MaxSlots :
          nodes = [n \in NodeNames |->
                     NewNodeInfo(TRUE, NewResource(c, AllocMem),
                                 NewResource(c, AllocMem))]
    /\ jobs \in [JobIds -> JobShapes]
    /\ enable = FALSE
    /\ tasks = [k \in SsnKeys |-> NewTask(k)]
    /\ err = "nil"
    /\ underflow = FALSE
    /\ stmt = <<>>
    /\ pre = <<>>
    /\ binds = {}
    /\ pc = "load"
    /\ present = {}
    /\ waited = [j \in JobIds |-> 0]
    /\ tried = {}
    /\ confStr \in ConfStrs
    /\ schedulerConf = <<>>
    /\ actions = <<>>
    /\ actionOptions = EmptyMap
    /\ NoOut

LoadSchedulerConf ==
    /\ pc = "load"
    /\ schedulerConf' = loadSchedulerConf(confStr).conf
    /\ err' = loadSchedulerConf(confStr).err
    /\ pc' = IF loadSchedulerConf(confStr).err = "nil" THEN "get" ELSE "exit"
    /\ UNCHANGED <<nodes, underflow, tasks, stmt, pre, binds, cycleVars,
                   confStr, actions, actionOptions, outVars>>

GetActions ==
    /\ pc = "get"
    /\ actions' = getActions(schedulerConf).actions
    /\ actionOptions' = getActions(schedulerConf).actionOptions
    /\ err' = getActions(schedulerConf).err
    /\ pc' = IF getActions(schedulerConf).err = "nil" THEN "start" ELSE "exit"
    /\ UNCHANGED <<nodes, underflow, tasks, stmt, pre, binds, cycleVars,
                   confStr, schedulerConf, outVars>>

\* The value of the backfill option the scheduler runs with.
BackfillOption ==
    IF "backfill" \in DOMAIN actionOptions
    THEN actionOptions["backfill"][BackfillFlagName] ELSE ""

\* The scheduler starts its cycles with the actions (allocate, or allocate
\* and then backfill) and the option it was given; the configuration text
\* and the parsed configuration are not used again.
StartScheduler ==
    /\ pc = "start"
    /\ actions \in {<<"allocate">>, <<"allocate", "backfill">>}
    /\ enable' = (BackfillOption = "true")
    /\ confStr' = <<>>
    /\ schedulerConf' = <<>>
    /\ pc' = "events"
    /\ UNCHANGED <<nodeVars, tasks, stmt, pre, binds, present, waited, tried,
                   jobs, actions, actionOptions, outVars>>

NextConf ==
    \/ LoadSchedulerConf
    \/ GetActions
    \/ StartScheduler
    \/ \E j \in JobIds : SubmitJob(j)
    \/ \E j \in JobIds : DeleteJob(j)
    \/ Tick
    \/ OpenSession
    \/ \E k \in SsnKeys, n \in NodeNames : AllocateTask(k, n)
    \/ \E j \in JobIds : CloseStatement(j)
    \/ ExecuteBackfill
    \/ \E k \in SsnKeys, n \in NodeNames : BackfillTask(k, n)
    \/ CloseSession

SpecConf == InitConf /\ [][NextConf]_vars

(***************************************************************************)
(* C15: when the configuration lists the backfill action and no backfill   *)
(* entry sets the enable option (the built-in default configuration is     *)
(* one), loadSchedulerConf followed by getActions yields the value "false" *)
(* for the option; a value that the last backfill entry sets is yielded    *)
(* unchanged; and while the scheduler runs with the value "false" the      *)
(* backfill action adds no bind.                                           *)
(***************************************************************************)
Parsed == Unmarshal(confStr, <<>>).Actions

BackfillEntries == {i \in DOMAIN Parsed : Parsed[i].Name = "backfill"}

LastBackfillEntry == CHOOSE i \in BackfillEntries : \A j \in BackfillEntries : j <= i

C15_Loaded ==
    (pc = "start" /\ BackfillEntries # {}) =>
        /\ (\A i \in BackfillEntries : ~MapFound(Parsed[i].Options, BackfillFlagName))
              => BackfillOption = "false"
        /\ confStr = defaultSchedulerConf => BackfillOption = "false"
        /\ MapFound(Parsed[LastBackfillEntry].Options, BackfillFlagName)
              => BackfillOption = MapGet(Parsed[LastBackfillEntry].Options,
                                         BackfillFlagName)

C15_BackfillDefault ==
    [][/\ C15_Loaded'
       /\ (pc = "backfill" /\ BackfillOption = "false") => binds' = binds]_vars

C15_Witness ==
    /\ pc = "start"
    /\ confStr = defaultSchedulerConf
    /\ schedulerConf[2].Name = "backfill"
    /\ schedulerConf[2].Options.m[BackfillFlagName] = "false"
    /\ actions = <<"allocate", "backfill">>
    /\ BackfillOption = "false"

(***************************************************************************)
(* C16: a gang job whose running tasks take the whole of the cluster and a *)
(* second job of the same shape that has no task bound: every step that    *)
(* does not delete the first job leaves the second job without a bind and  *)
(* with all its tasks pending, and leaves every task of the first job      *)
(* running on its node.                                                    *)
(***************************************************************************)
FullOccupied(a, b) ==
    /\ a # b /\ a \in present /\ b \in present
    /\ jobs[a] = jobs[b]
    /\ jobs[a].MinMember = jobs[a].Size
    /\ \A k \in TasksOf(jobs, a) : tasks[k].Status = Running
    /\ \A n \in NodeNames :
          SumResreq(tasks, {k \in TasksOf(jobs, a) : tasks[k].NodeName = n}).cpu
              = nodes[n].Allocatable.cpu
    /\ ~Bound(b)

C16_FullOccupied ==
    [][\A a \in JobIds, b \in JobIds :
          (FullOccupied(a, b) /\ a \in present') =>
              /\ ~Bound(b)'
              /\ \A k \in TasksOf(jobs, b) : tasks'[k].Status = Pending
              /\ \A k \in TasksOf(jobs, a) :
                    /\ tasks'[k].Status = Running
                    /\ k \in DOMAIN nodes'[tasks[k].NodeName].Tasks
                    /\ nodes'[tasks[k].NodeName].Tasks[k].Status = Running]_vars

\* The second job has been tried in a cycle that found the first job running.
C16_Witness ==
    /\ pc = "backfill"
    /\ \E a \in JobIds, b \in JobIds :
          /\ FullOccupied(a, b)
          /\ b \in tried
          /\ \A k \in TasksOf(jobs, b) : tasks[k].Status = Pending

(***************************************************************************)
(* C17: a job with MinMember = 1 whose N running tasks take the whole of   *)
(* the cluster and a second job of the same shape: under fair repetition   *)
(* of the cycle of the configured actions (allocate, then backfill) the    *)
(* system reaches a state where N/2 tasks of the first job and N/2 tasks   *)
(* of the second job are running, unless one of the jobs is deleted.       *)
(***************************************************************************)
RunningNum(j) ==
    Cardinality({k \in TasksOf(jobs, j) : tasks[k].Status = Running})

Preemptee(a, b) ==
    /\ pc = "events"
    /\ a # b /\ a \in present /\ b \in present
    /\ jobs[a] = jobs[b]
    /\ jobs[a].MinMember = 1
    /\ jobs[a].Head = 1
    /\ jobs[a].Size >= 2
    /\ jobs[a].Size = nodes["n1"].Allocatable.cpu
    /\ RunningNum(a) = jobs[a].Size
    /\ RunningNum(b) = 0

HalfEach(a, b) ==
    /\ RunningNum(a) = jobs[a].Size \div 2
    /\ RunningNum(b) = jobs[b].Size \div 2

C17_Preemption ==
    \A a \in JobIds, b \in JobIds :
        [](Preemptee(a, b) =>
              <>(HalfEach(a, b) \/ a \notin present \/ b \notin present))

(***************************************************************************)
(* C18: a job with MinMember = 1 and two pending tasks of different sizes, *)
(* of which the higher-ranked one fits no node and the other one fits:     *)
(* the pass of the allocate action over the job binds the task that fits   *)
(* and leaves the other task pending.                                      *)
(***************************************************************************)
MixedRequests(j) ==
    /\ j \in present
    /\ jobs[j].MinMember = 1
    /\ jobs[j].Size = 2
    /\ tasks[KeyOf(j, 1)].Resreq # tasks[KeyOf(j, 2)].Resreq
    /\ tasks[KeyOf(j, 1)].Status = Pending
    /\ tasks[KeyOf(j, 2)].Status = Pending
    /\ \A n \in NodeNames : ~LessEqual(tasks[KeyOf(j, 1)].Resreq, nodes[n].Idle)
    /\ \E n \in NodeNames : LessEqual(tasks[KeyOf(j, 2)].Resreq, nodes[n].Idle)

C18_MixedRequests ==
    [][\A j \in JobIds :
          (pc = "allocate" /\ j \notin tried /\ j \in tried' /\ MixedRequests(j)) =>
              /\ \E n \in NodeNames : <<KeyOf(j, 2), n>> \in binds'
              /\ tasks'[KeyOf(j, 1)].Status = Pending]_vars

(***************************************************************************)
(* C19: between two cycles, a gang job that is not ready and whose         *)
(* MinMember highest-ranked tasks together fit what the tasks on the node  *)
(* leave of Allocatable: under fair repetition of the cycle the job        *)
(* becomes ready with its tasks bound, unless the job is deleted or the    *)
(* capacity is no longer enough between two later cycles.                  *)
(***************************************************************************)
FreeOf(n) ==
    Sub(nodes[n].Allocatable, SumResreq(nodes[n].Tasks, DOMAIN nodes[n].Tasks))

GangNeed(g) == SumResreq(tasks, {KeyOf(g, i) : i \in 1..jobs[g].MinMember})

EnoughFor(g) == \E n \in NodeNames : LessEqual(GangNeed(g), FreeOf(n))

GangWaits(g) ==
    /\ pc = "events"
    /\ g \in present
    /\ jobs[g].MinMember > 1
    /\ ReadyTaskNum(tasks, jobs, g) < jobs[g].MinMember
    /\ EnoughFor(g)

GangReady(g) ==
    /\ ReadyTaskNum(tasks, jobs, g) >= jobs[g].MinMember
    /\ Cardinality({b \in binds : JobOf(b[1]) = g}) >= jobs[g].MinMember

C19_GangProgress ==
    \A g \in JobIds :
        [](GangWaits(g) =>
              <>(GangReady(g) \/ g \notin present \/ (pc = "events" /\ ~EnoughFor(g))))

\* A gang job that waited past the threshold while a replica set held the
\* node now runs on the whole of the node.
C19_Witness ==
    /\ pc = "events"
    /\ \E g \in present :
          /\ jobs[g].MinMember > 1
          /\ waited[g] > StarvationThreshold
          /\ GangReady(g)
          /\ DOMAIN nodes["n1"].Tasks \subseteq TasksOf(jobs, g)
          /\ nodes["n1"].Idle.cpu = 0

(***************************************************************************)
(* C20: two gang jobs whose tasks were all pending when the session        *)
(* opened, each needing more than half of the capacity that was free then, *)
(* the first one with a higher priority than every other job and fitting   *)
(* the free capacity: when the allocate action is over, the job with the   *)
(* higher priority is ready and the other one is not, whichever of the two *)
(* was created first.                                                      *)
(***************************************************************************)
FreeAtOpenOf(n) ==
    Sub(nodes[n].Allocatable,
        SumResreq(nodes[n].Tasks,
                  {k \in DOMAIN nodes[n].Tasks : nodes[n].Tasks[k].Status = Running}))

PriorityRace(a, b) ==
    /\ a # b /\ a \in present /\ b \in present
    /\ jobs[a].MinMember > 1 /\ jobs[b].MinMember > 1
    /\ \A j \in present \ {a} : jobs[a].Priority > jobs[j].Priority
    /\ \A k \in TasksOf(jobs, a) \cup TasksOf(jobs, b) : tasks[k].Status # Running
    /\ LessEqual(GangNeed(a), FreeAtOpenOf("n1"))
    /\ 2 * GangNeed(a).cpu > FreeAtOpenOf("n1").cpu
    /\ 2 * GangNeed(b).cpu > FreeAtOpenOf("n1").cpu

C20_JobPriority ==
    \A a \in JobIds, b \in JobIds :
        (pc = "backfill" /\ PriorityRace(a, b)) =>
            /\ ReadyTaskNum(tasks, jobs, a) >= jobs[a].MinMember
            /\ Cardinality({x \in binds : JobOf(x[1]) = a}) >= jobs[a].MinMember
            /\ ReadyTaskNum(tasks, jobs, b) < jobs[b].MinMember
            /\ ~Bound(b)

\* The job with the higher priority was created last and is the one admitted.
C20_Witness ==
    /\ pc = "backfill"
    /\ \E a \in JobIds, b \in JobIds :
          /\ PriorityRace(a, b)
          /\ b < a
          /\ LessEqual(GangNeed(b), FreeAtOpenOf("n1"))
          /\ ReadyTaskNum(tasks, jobs, a) >= jobs[a].MinMember
          /\ \A k \in TasksOf(jobs, b) : tasks[k].Status = Pending

(***************************************************************************)
(* The life of one NodeInfo in the cache: it may exist before its node     *)
(* object arrives (tasks are then recorded without touching the counters), *)
(* SetNode hands it the node object (again at every update of the node),   *)
(* Clone copies it for a session and GetAccessibleResource reads it.       *)
(***************************************************************************)
\* SetNode, the body of the loop over the tasks of the node.
SetNodeTask(ni, task) ==
    [ni EXCEPT !.Releasing = IF task.Status = Releasing
                             THEN Add(@, task.Resreq) ELSE @,
               !.Idle = Sub(@, task.Resreq),
               !.Used = Add(@, task.Resreq)]

\* The loop only adds to Releasing and Used and only subtracts from Idle,
\* so the order of the iteration does not show in the result.
RECURSIVE SetNodeTasks(_, _)
SetNodeTasks(ni, keys) ==
    IF keys = {} THEN ni
    ELSE LET k == CHOOSE x \in keys : \A y \in keys : x <= y
         IN  SetNodeTasks(SetNodeTask(ni, ni.Tasks[k]), keys \ {k})

SetNode(ni, alloc, cap) ==
    SetNodeTasks([ni EXCEPT !.Node = TRUE, !.Allocatable = alloc,
                            !.Capability = cap, !.Idle = alloc],
                 DOMAIN ni.Tasks)

SetNodeUnderflow(ni, alloc) ==
    ~LessEqual(SumResreq(ni.Tasks, DOMAIN ni.Tasks), alloc)

\* The orders in which a range over a map may visit its keys.
Orders(S) ==
    {o \in [1..Cardinality(S) -> S] : \A i, j \in 1..Cardinality(S) : o[i] = o[j] => i = j}

RECURSIVE CloneFrom(_, _, _)
CloneFrom(newNode, ni, order) ==
    IF order = <<>> THEN newNode
    ELSE CloneFrom(AddTask(newNode, ni.Tasks[Head(order)]).ni, ni, Tail(order))

\* Clone: a new NodeInfo of the same node object, to which the tasks of the
\* node are added in the order of the iteration.
Clone(ni, order) ==
    CloneFrom(NewNodeInfo(ni.Node, ni.Allocatable, ni.Capability), ni, order)

\* A variant in which the sum is built in the Idle of the node.
IdleAfterAddShared(ni, sum) == sum

\* The Idle of the node after the sum was built: Add worked on a copy.
IdleAfterAdd(ni, sum) == ni.Idle

GetAccessibleResource(ni) ==
    LET idle == ni.Idle
        sum == Add(idle, ni.Backfilled)
    IN  [ni |-> [ni EXCEPT !.Idle = IdleAfterAdd(ni, sum)],
         ret |-> sum]

NodeObjects == {NewResource(c, AllocMem) : c \in 1..AllocCPU}

\* Used is doubled by a SetNode on a node that holds tasks; the model stops
\* at this value.
UsedBound == MaxTasks * MaxCPU + 1

\* The objects RemoveTask is handed: the task with the status and the flag it
\* has by now in the hands of the caller.
NodeRemoveInputs ==
    {t \in TaskInputs : /\ t.Status \in {Running, Releasing}
                        /\ t.IsBackfill = (t.Status = Releasing)
                        /\ ~t.PodBackfill
                        /\ t.Resreq = NewResource(1, 0)}

InitNode ==
    /\ \E a \in NodeObjects :
          nodes \in [NodeNames -> {NewNodeInfo(FALSE, a, a), NewNodeInfo(TRUE, a, a)}]
    /\ err = "nil"
    /\ underflow = FALSE
    /\ tasks = <<>>
    /\ stmt = <<>>
    /\ pre = <<>>
    /\ binds = {}
    /\ pc = "node"
    /\ present = {}
    /\ waited = <<>>
    /\ tried = {}
    /\ enable = FALSE
    /\ jobs = <<>>
    /\ NoConf
    /\ NoOut

NodeAddTask(n, t) == pc = "node" /\ DoAddTask(n, t)

NodeRemoveTask(n, t) == pc = "node" /\ DoRemoveTask(n, t)

NodeUpdateTask(n, t) == pc = "node" /\ DoUpdateTask(n, t)

\* SetNode returns nothing to its caller.
DoSetNode(n, a) ==
    /\ pc = "node"
    /\ InBound(SetNode(nodes[n], a, a))
    /\ SetNode(nodes[n], a, a).Used.cpu <= UsedBound
    /\ SetNode(nodes[n], a, a).Used.mem <= UsedBound
    /\ nodes' = [nodes EXCEPT ![n] = SetNode(@, a, a)]
    /\ err' = "nil"
    /\ underflow' = (underflow \/ SetNodeUnderflow(nodes[n], a))
    /\ UNCHANGED <<ssnVars, cycleVars, confVars, outVars>>

DoClone(n, order) ==
    /\ pc = "node"
    /\ cloned' = Clone(nodes[n], order)
    /\ pc' = "cloned"
    /\ UNCHANGED <<nodeVars, tasks, stmt, pre, binds, cycleVars, confVars,
                   accessible, executed>>

DoGetAccessibleResource(n) ==
    /\ pc = "node"
    /\ accessible' = GetAccessibleResource(nodes[n]).ret
    /\ nodes' = [nodes EXCEPT ![n] = GetAccessibleResource(@).ni]
    /\ pc' = "accessed"
    /\ UNCHANGED <<err, underflow, tasks, stmt, pre, binds, cycleVars, confVars,
                   cloned, executed>>

\* The caller is done with the value it was returned.
DropResult ==
    /\ pc \in {"cloned", "accessed"}
    /\ pc' = "node"
    /\ cloned' = <<>>
    /\ accessible' = <<>>
    /\ UNCHANGED <<nodeVars, tasks, stmt, pre, binds, cycleVars, confVars, executed>>

NextNode ==
    \/ \E n \in NodeNames, t \in TaskInputs : NodeAddTask(n, t)
    \/ \E n \in NodeNames, t \in NodeRemoveInputs : NodeRemoveTask(n, t)
    \/ \E n \in NodeNames, t \in TaskInputs : NodeUpdateTask(n, t)
    \/ \E n \in NodeNames, a \in NodeObjects : DoSetNode(n, a)
    \/ \E n \in NodeNames : \E order \in Orders(DOMAIN nodes[n].Tasks) : DoClone(n, order)
    \/ \E n \in NodeNames : DoGetAccessibleResource(n)
    \/ DropResult

SpecNode == InitNode /\ [][NextNode]_vars

(***************************************************************************)
(* C21: GetAccessibleResource returns, in every dimension, the Idle of the *)
(* node plus its Backfilled, and the node is after the call what it was    *)
(* before it: Idle, Backfilled, every other counter and the tasks.         *)
(***************************************************************************)
C21_Accessible ==
    [][pc' = "accessed" =>
          \A n \in NodeNames :
              /\ accessible'.cpu = nodes[n].Idle.cpu + nodes[n].Backfilled.cpu
              /\ accessible'.mem = nodes[n].Idle.mem + nodes[n].Backfilled.mem
              /\ nodes'[n] = nodes[n]]_vars

C21_Witness ==
    /\ pc = "accessed"
    /\ \E n \in NodeNames :
          /\ nodes[n].Idle.cpu > 0
          /\ nodes[n].Backfilled.cpu > 0
          /\ accessible.cpu = nodes[n].Idle.cpu + nodes[n].Backfilled.cpu
          /\ accessible # nodes[n].Idle

(***************************************************************************)
(* C22: in every reachable state of a node that has its node object, Used  *)
(* is the sum of the requests of the tasks on the node, Idle is            *)
(* Allocatable minus the requests of its tasks that are not Pipelined,     *)
(* Releasing is the requests of its Releasing tasks minus those of its     *)
(* Pipelined tasks, and Backfilled is the sum of the requests of its tasks *)
(* flagged IsBackfill.                                                     *)
(***************************************************************************)
ResreqOf(ni, status) ==
    SumResreq(ni.Tasks, {k \in DOMAIN ni.Tasks : ni.Tasks[k].Status = status})

RecomputedUsed(ni) == SumResreq(ni.Tasks, DOMAIN ni.Tasks)

RecomputedIdle(ni) ==
    Sub(ni.Allocatable,
        SumResreq(ni.Tasks, {k \in DOMAIN ni.Tasks : ni.Tasks[k].Status # Pipelined}))

RecomputedReleasing(ni) == Sub(ResreqOf(ni, Releasing), ResreqOf(ni, Pipelined))

RecomputedBackfilled(ni) ==
    SumResreq(ni.Tasks, {k \in DOMAIN ni.Tasks : ni.Tasks[k].IsBackfill})

C22_Recomputed ==
    \A n \in NodeNames :
        nodes[n].Node =>
            /\ nodes[n].Used = RecomputedUsed(nodes[n])
            /\ nodes[n].Idle = RecomputedIdle(nodes[n])
            /\ nodes[n].Releasing = RecomputedReleasing(nodes[n])
            /\ nodes[n].Backfilled = RecomputedBackfilled(nodes[n])

(***************************************************************************)
(* C23: Clone returns a node with the same task keys, the same task        *)
(* statuses and the same Idle, Used, Releasing and Backfilled as the       *)
(* original, whatever the order in which the tasks are iterated.           *)
(***************************************************************************)
SameSnapshot(copy, ni) ==
    /\ DOMAIN copy.Tasks = DOMAIN ni.Tasks
    /\ \A k \in DOMAIN ni.Tasks : copy.Tasks[k].Status = ni.Tasks[k].Status
    /\ copy.Idle = ni.Idle
    /\ copy.Used = ni.Used
    /\ copy.Releasing = ni.Releasing
    /\ copy.Backfilled = ni.Backfilled

C23_CloneFidelity ==
    [][\A n \in NodeNames : \A order \in Orders(DOMAIN nodes[n].Tasks) :
           DoClone(n, order) => SameSnapshot(cloned', nodes[n])]_vars

(***************************************************************************)
(* C24: an AddTask or a SetNode that subtracts a request from a smaller    *)
(* counter (the request from Idle, or the request of a Pipelined task      *)
(* from Releasing) leaves no negative component in a counter of the node   *)
(* and returns an error to its caller.                                     *)
(***************************************************************************)
NonNegative(r) == r.cpu >= 0 /\ r.mem >= 0

NoNegativeCounter(ni) ==
    /\ NonNegative(ni.Idle)
    /\ NonNegative(ni.Used)
    /\ NonNegative(ni.Releasing)
    /\ NonNegative(ni.Backfilled)

C24_UnderflowReported ==
    [][\A n \in NodeNames :
          /\ \A t \in TaskInputs :
                 NodeAddTask(n, t) /\ AddTaskUnderflow(nodes[n], t)
                     => NoNegativeCounter(nodes'[n]) /\ err' # "nil"
          /\ \A a \in NodeObjects :
                 DoSetNode(n, a) /\ SetNodeUnderflow(nodes[n], a)
                     => NoNegativeCounter(nodes'[n]) /\ err' # "nil"]_vars

(***************************************************************************)
(* A task in the hands of its caller.  The caller adds one task to a node, *)
(* goes on changing its own task object, and removes the task by passing   *)
(* the object as it is by then.  tasks is <<the object as it was passed to *)
(* AddTask or UpdateTask last, the object as it is now>>; pre is the       *)
(* nodes as they were before the task was added.                           *)
(***************************************************************************)

\* A variant in which the node holds the caller's object itself.
HeldAfterChangeShared(held, changed) == changed

\* AddTask stored a clone of the object, which a change of the object does
\* not reach.
HeldAfterChange(held, changed) == held

HeldAddTask(n, t) ==
    /\ pc = "node"
    /\ tasks = <<>>
    /\ InBound(AddTask(nodes[n], t).ni)
    /\ nodes' = [nodes EXCEPT ![n] = AddTask(@, t).ni]
    /\ err' = AddTask(nodes[n], t).err
    /\ underflow' = (underflow \/ AddTaskUnderflow(nodes[n], t))
    /\ tasks' = <<t, t>>
    /\ pre' = nodes
    /\ pc' = "held"
    /\ UNCHANGED <<stmt, binds, cycleVars, confVars, outVars>>

ChangeTask(changed) ==
    /\ pc = "held"
    /\ PodKey(changed) = PodKey(tasks[2])
    /\ changed # tasks[2]
    /\ tasks' = <<tasks[1], changed>>
    /\ nodes' = [n \in NodeNames |->
                    [nodes[n] EXCEPT !.Tasks =
                        [k \in DOMAIN @ |->
                            IF k = PodKey(changed)
                            THEN HeldAfterChange(@[k], changed)
                            ELSE @[k]]]]
    /\ UNCHANGED <<err, underflow, stmt, pre, binds, pc, cycleVars, confVars, outVars>>

HeldRemoveTask(n) ==
    /\ pc = "held"
    /\ InBound(RemoveTask(nodes[n], tasks[2]).ni)
    /\ nodes' = [nodes EXCEPT ![n] = RemoveTask(@, tasks[2]).ni]
    /\ err' = RemoveTask(nodes[n], tasks[2]).err
    /\ underflow' = (underflow \/ RemoveTaskUnderflow(nodes[n], tasks[2]))
    /\ pc' = "removed"
    /\ UNCHANGED <<tasks, stmt, pre, binds, cycleVars, confVars, outVars>>

ForgetTask ==
    /\ pc = "removed"
    /\ tasks' = <<>>
    /\ pre' = <<>>
    /\ pc' = "node"
    /\ UNCHANGED <<nodeVars, stmt, binds, cycleVars, confVars, outVars>>

HeldUpdateTask(n) ==
    /\ pc = "held"
    /\ InBound(UpdateTask(nodes[n], tasks[2]).ni)
    /\ nodes' = [nodes EXCEPT ![n] = UpdateTask(@, tasks[2]).ni]
    /\ err' = UpdateTask(nodes[n], tasks[2]).err
    /\ underflow' = (underflow \/ UpdateTaskUnderflow(nodes[n], tasks[2]))
    /\ pc' = "updated"
    /\ UNCHANGED <<tasks, stmt, pre, binds, cycleVars, confVars, outVars>>

\* From now on the node holds the task as it was passed to UpdateTask.
KeepTask ==
    /\ pc = "updated"
    /\ tasks' = <<tasks[2], tasks[2]>>
    /\ pc' = "held"
    /\ UNCHANGED <<nodeVars, stmt, pre, binds, cycleVars, confVars, outVars>>

NextHeld ==
    \/ \E n \in NodeNames, t \in TaskInputs : HeldAddTask(n, t)
    \/ \E changed \in TaskInputs : ChangeTask(changed)
    \/ \E n \in NodeNames : HeldRemoveTask(n)
    \/ ForgetTask
    \/ \E n \in NodeNames : HeldUpdateTask(n)
    \/ KeepTask

SpecHeld == InitNode /\ [][NextHeld]_vars

(***************************************************************************)
(* C27: a task is held by value.  A change of the status, the request or   *)
(* the backfill flag of the caller's object after AddTask changes neither  *)
(* a counter of the node nor the task held by the node, and a later        *)
(* RemoveTask takes the task off the node and moves the counters by the    *)
(* request and for the status the task had when it was added, whatever     *)
(* the object passed to RemoveTask says.                                   *)
(***************************************************************************)
RemovedAsAdded(ni, after, added) ==
    /\ PodKey(added) \notin DOMAIN after.Tasks
    /\ IF ni.Node
       THEN /\ after.Used = Sub(ni.Used, added.Resreq)
            /\ after.Idle = IF added.Status = Pipelined
                            THEN ni.Idle
                            ELSE Add(ni.Idle, added.Resreq)
            /\ after.Releasing =
                  CASE added.Status = Releasing -> Sub(ni.Releasing, added.Resreq)
                    [] added.Status = Pipelined -> Add(ni.Releasing, added.Resreq)
                    [] OTHER -> ni.Releasing
       ELSE /\ after.Used = ni.Used
            /\ after.Idle = ni.Idle
            /\ after.Releasing = ni.Releasing

C27_HeldByValue ==
    [][/\ (pc = "held" /\ pc' = "held") => nodes' = nodes
       /\ (pc = "held" /\ pc' = "removed") =>
             /\ err' = "nil"
             /\ \A n \in NodeNames : RemovedAsAdded(nodes[n], nodes'[n], tasks[1])]_vars

C27_Witness ==
    /\ pc = "removed"
    /\ tasks[1].Status = Releasing
    /\ tasks[2].Status = Pipelined
    /\ tasks[1].IsBackfill # tasks[2].IsBackfill
    /\ \E n \in NodeNames :
          /\ nodes[n].Node
          /\ nodes[n].Allocatable.cpu > 0
          /\ nodes[n].Idle = nodes[n].Allocatable
          /\ nodes[n].Releasing.cpu = 0
          /\ nodes[n].Used.cpu = 0

(***************************************************************************)
(* C28: UpdateTask of a task whose key is on the node returns no error,    *)
(* leaves the set of task keys of the node as it was, and leaves Idle,     *)
(* Used, Releasing and Backfilled as they would be, had the task been      *)
(* added to the node with its new status in the first place; a change      *)
(* among the statuses that are neither Releasing nor Pipelined, with the   *)
(* same request, changes no counter.                                       *)
(***************************************************************************)
SameCounters(a, b) ==
    /\ a.Idle = b.Idle
    /\ a.Used = b.Used
    /\ a.Releasing = b.Releasing
    /\ a.Backfilled = b.Backfilled

C28_UpdateAsAdded ==
    [][(pc = "held" /\ pc' = "updated") =>
          /\ err' = "nil"
          /\ \A n \in NodeNames :
                /\ DOMAIN nodes'[n].Tasks = DOMAIN nodes[n].Tasks
                /\ SameCounters(nodes'[n], AddTask(pre[n], tasks[2]).ni)
                /\ (/\ tasks[1].Status \notin {Releasing, Pipelined}
                    /\ tasks[2].Status \notin {Releasing, Pipelined}
                    /\ tasks[2].Resreq = tasks[1].Resreq)
                       => SameCounters(nodes'[n], nodes[n])]_vars

(***************************************************************************)
(* C29: when the tasks of a node were added before its node object         *)
(* arrived, SetNode leaves the node with the Idle, Used, Releasing and     *)
(* Backfilled of a node that got the node object first and the same tasks  *)
(* afterwards, for tasks of every status and backfill flag.                *)
(***************************************************************************)
NodeFirst(ni, a, order) == CloneFrom(NewNodeInfo(TRUE, a, a), ni, order)

C29_EventOrder ==
    [][\A n \in NodeNames : \A a \in NodeObjects :
          (DoSetNode(n, a) /\ ~nodes[n].Node) =>
              \E order \in Orders(DOMAIN nodes[n].Tasks) :
                  SameCounters(nodes'[n], NodeFirst(nodes[n], a, order))]_vars

(***************************************************************************)
(* The scheduler running the actions of its configuration.  The text is    *)
(* loaded by loadSchedulerConf and resolved by getActions, or parsed by    *)
(* the caller and handed to getActions as it is; a session executes the    *)
(* actions in the order of the list getActions returned.                   *)
(***************************************************************************)
InitActs ==
    /\ \E c \in 1..MaxSlots :
          nodes = [n \in NodeNames |->
                     NewNodeInfo(TRUE, NewResource(c, AllocMem),
                                 NewResource(c, AllocMem))]
    /\ jobs = [j \in JobIds |-> [Size |-> 1, MinMember |-> 1]]
    /\ enable = FALSE
    /\ tasks = [k \in SsnKeys |-> NewTask(k)]
    /\ err = "nil"
    /\ underflow = FALSE
    /\ stmt = <<>>
    /\ pre = <<>>
    /\ binds = {}
    /\ pc = "load"
    /\ present = {}
    /\ waited = [j \in JobIds |-> 0]
    /\ tried = {}
    /\ confStr \in ConfStrs
    /\ schedulerConf = <<>>
    /\ actions = <<>>
    /\ actionOptions = EmptyMap
    /\ NoOut

\* getActions on the configuration as yaml.Unmarshal left it.
GetActionsOfParsed ==
    /\ pc = "load"
    /\ Unmarshal(confStr, <<>>).err = "nil"
    /\ schedulerConf' = Parsed
    /\ actions' = getActions(Parsed).actions
    /\ actionOptions' = getActions(Parsed).actionOptions
    /\ err' = getActions(Parsed).err
    /\ pc' = IF getActions(Parsed).err = "nil" THEN "start" ELSE "exit"
    /\ UNCHANGED <<nodes, underflow, tasks, stmt, pre, binds, cycleVars,
                   confStr, outVars>>

\* The scheduler starts its cycles with the actions and the option it was
\* given; the configuration is not used again.
StartActions ==
    /\ pc = "start"
    /\ actions # <<>>
    /\ enable' = (BackfillOption = "true")
    /\ confStr' = <<>>
    /\ schedulerConf' = <<>>
    /\ actionOptions' = EmptyMap
    /\ pc' = "events"
    /\ UNCHANGED <<nodeVars, tasks, stmt, pre, binds, present, waited, tried,
                   jobs, actions, outVars>>

\* A variant that takes the actions from the end of the list.
ActionAtReversed(i) == actions[Len(actions) + 1 - i]

\* The action a session executes in the i-th place.
ActionAt(i) == actions[i]

\* The action under way has nothing left to do.
ActionDone ==
    \/ pc = "allocate" /\ present \subseteq tried
    \/ /\ pc = "backfill"
       /\ (enable /\ ~Starving) =>
             \A k \in SsnKeys, n \in NodeNames : ~BackfillEligible(k, n)

\* A session is opened and executes its first action.
OpenActions ==
    /\ pc = "events"
    /\ present # {}
    /\ pc' = ActionAt(1)
    /\ executed' = <<ActionAt(1)>>
    /\ tried' = {}
    /\ UNCHANGED <<nodeVars, tasks, stmt, pre, binds, present, waited, enable,
                   jobs, confVars, cloned, accessible>>

\* The session goes on to its next action.
ExecuteNext ==
    /\ pc \in {"allocate", "backfill"}
    /\ ActionDone
    /\ Len(executed) < Len(actions)
    /\ pc' = ActionAt(Len(executed) + 1)
    /\ executed' = Append(executed, ActionAt(Len(executed) + 1))
    /\ tried' = {}
    /\ UNCHANGED <<nodeVars, tasks, stmt, pre, binds, present, waited, enable,
                   jobs, confVars, cloned, accessible>>

\* The session is closed after its last action; the tasks handed to the
\* binder start running.
CloseActions ==
    /\ pc \in {"allocate", "backfill"}
    /\ ActionDone
    /\ Len(executed) = Len(actions)
    /\ pc' = "events"
    /\ LET ts == [k \in SsnKeys |->
                    IF tasks[k].Status = Allocated
                    THEN [tasks[k] EXCEPT !.Status = Running] ELSE tasks[k]]
       IN  /\ tasks' = ts
           /\ nodes' = [n \in NodeNames |->
                          UpdateAll(nodes[n], ts,
                                    {k \in SsnKeys : tasks[k].Status = Allocated
                                                     /\ tasks[k].NodeName = n})]
    /\ UNCHANGED <<err, underflow, stmt, pre, binds, cycleVars, confVars, outVars>>

NextActs ==
    \/ LoadSchedulerConf
    \/ GetActions
    \/ GetActionsOfParsed
    \/ StartActions
    \/ \E j \in JobIds : SubmitJob(j)
    \/ \E j \in JobIds : DeleteJob(j)
    \/ Tick
    \/ OpenActions
    \/ \E k \in SsnKeys, n \in NodeNames : AllocateTask(k, n)
    \/ \E j \in JobIds : CloseStatement(j)
    \/ \E k \in SsnKeys, n \in NodeNames : BackfillTask(k, n)
    \/ ExecuteNext
    \/ CloseActions

SpecActs == InitActs /\ [][NextActs]_vars

(***************************************************************************)
(* C25: for a configuration that names an action which is not registered,  *)
(* loadSchedulerConf returns no configuration and an error, and getActions *)
(* returns no action list, no options and an error; neither of them        *)
(* crashes.                                                                *)
(***************************************************************************)
NamesUnregistered ==
    /\ Unmarshal(confStr, <<>>).err = "nil"
    /\ \E i \in DOMAIN Parsed : ~GetAction(Parsed[i].Name).found

ErrorValue(e) == e \notin {"nil", "panic"}

C25_UnregisteredAction ==
    [][/\ (LoadSchedulerConf /\ NamesUnregistered) =>
             schedulerConf' = <<>> /\ ErrorValue(err')
       /\ (GetActionsOfParsed /\ NamesUnregistered) =>
             /\ actions' = <<>>
             /\ actionOptions' = EmptyMap
             /\ ErrorValue(err')]_vars

(***************************************************************************)
(* C26: when every action of the configuration is registered, getActions   *)
(* returns one action for each entry of the configuration, in the order    *)
(* of the entries, and a session executes the actions in that order: what  *)
(* it has executed so far is a beginning of the list, and it is the whole  *)
(* list once the session is closed.  With the default configuration the    *)
(* list is allocate, then backfill.                                        *)
(***************************************************************************)
NamesOf(conf) == [i \in 1..Len(conf) |-> conf[i].Name]

IsPrefix(s, t) == Len(s) <= Len(t) /\ s = SubSeq(t, 1, Len(s))

C26_ActionOrder ==
    /\ pc = "start" =>
          /\ actions = NamesOf(Parsed)
          /\ confStr = defaultSchedulerConf => actions = <<"allocate", "backfill">>
    /\ pc \in {"allocate", "backfill"} =>
          /\ executed # <<>>
          /\ IsPrefix(executed, actions)
          /\ pc = executed[Len(executed)]
    /\ (pc = "events" /\ executed # <<>>) => executed = actions

C26_Witness ==
    /\ pc = "events"
    /\ actions = <<"backfill", "allocate">>
    /\ executed = actions
    /\ binds # {}

====
